---------------------------- MODULE Spec2Model ----------------------------
(***************************************************************************)
(* A model of mapbuffer (src/src/mapbuffer.cpp): the resident-submap index *)
(* `submaps`, the quad files under <world>/maps and the operations         *)
(* add_submap, remove_submap, lookup_submap, save and reset.               *)
(*                                                                         *)
(* A tripoint is a record [x, y, z].  A submap pointer is a record         *)
(* [null, payload, is_uniform]; `nullptr` is the null pointer.  A quad     *)
(* file is keyed by the overmap-terrain address its path is built from     *)
(* and holds the records the JSON array holds, plus `bad`: the text after  *)
(* the last well-formed record is malformed, so the parser throws there.   *)
(***************************************************************************)
EXTENDS Integers, Sequences, FiniteSets, TLC

VARIABLES submaps, files, dirs, maps_dir, coords, last

vars == <<submaps, files, dirs, maps_dir, coords, last>>

-----------------------------------------------------------------------------
(* Bounds and program constants *)

\* Non-uniform submaps carry a payload in 1..NumPayloads.
NumPayloads == 1

\* HALF_MAPSIZE of game_constants.h: the live map spans this many overmap
\* terrains from its origin
HALF_MAPSIZE == 5

\* savegame_version, written into every record
savegame_version == 25

\* deserialize: records with a version below this one get rubpow_update
RubpowVersion == 22

\* a quad is 2x2 submaps, a segment 32x32 quads
SmPerOmt == 2
OmtPerSeg == 32

-----------------------------------------------------------------------------
(* tripoints and the coordinate mapper *)

tripoint(x, y, z) == [x |-> x, y |-> y, z |-> z]

\* point_zero, point_south, point_east, point_south_east, as save_quad pushes them
offsets == << [x |-> 0, y |-> 0], [x |-> 0, y |-> 1],
              [x |-> 1, y |-> 0], [x |-> 1, y |-> 1] >>

\* divide( v, m ): division rounding towards minus infinity
divide(v, m) == v \div m

sm_to_omt_copy(p) == tripoint(divide(p.x, SmPerOmt), divide(p.y, SmPerOmt), p.z)

omt_to_sm_copy(p) == tripoint(p.x * SmPerOmt, p.y * SmPerOmt, p.z)

omt_to_seg_copy(p) == tripoint(divide(p.x, OmtPerSeg), divide(p.y, OmtPerSeg), p.z)

\* operator< of tripoint: the order std::map iterates submaps in
tripoint_less(a, b) ==
    IF a.x # b.x THEN a.x < b.x
    ELSE IF a.y # b.y THEN a.y < b.y
    ELSE a.z < b.z

-----------------------------------------------------------------------------
(* submap pointers *)

nullptr == [null |-> TRUE, payload |-> 0, is_uniform |-> FALSE]

\* a pointer to a live submap
submap(payload, is_uniform) ==
    [null |-> FALSE, payload |-> payload, is_uniform |-> is_uniform]

\* The coordinates the simulation asks for, by the region it plays in: two
\* members of quad (0,0,0), or one member each of quads (0,0,0) and (-1,0,-1).
SiblingCoords == {tripoint(0, 0, 0), tripoint(1, 0, 0)}
QuadCoords == {tripoint(0, 0, 0), tripoint(-1, 0, -1)}

\* The submaps the simulation creates: a uniform one (default terrain, payload
\* 0) or a non-uniform one with a payload of its own.
NewSubmaps ==
    {submap(0, TRUE)} \cup {submap(n, FALSE) : n \in 1..NumPayloads}

-----------------------------------------------------------------------------
(* std::map helpers *)

EmptyMap == [k \in {} |-> nullptr]

Put(m, k, v) == [a \in DOMAIN m \cup {k} |-> IF a = k THEN v ELSE m[a]]

Erase(m, k) == [a \in DOMAIN m \ {k} |-> m[a]]

\* submaps[k]: operator[] default-constructs (a null pointer) a missing entry
Subscript(m, k) == IF k \in DOMAIN m THEN m ELSE Put(m, k, nullptr)

\* the keys that hold a submap
Resident(m) == {k \in DOMAIN m : ~m[k].null}

-----------------------------------------------------------------------------
(* mapbuffer::reset *)

reset(m) == EmptyMap

(* mapbuffer::add_submap( const tripoint &, submap * ) *)
add_submap(m, p, sm) ==
    IF p \in DOMAIN m
    THEN [ret |-> FALSE, submaps |-> m]
    ELSE [ret |-> TRUE, submaps |-> Put(m, p, sm)]

(* mapbuffer::remove_submap *)
remove_submap_silent(m, addr) ==
    IF addr \notin DOMAIN m
    THEN [submaps |-> m, diags |-> 0]
    ELSE [submaps |-> Erase(m, addr), diags |-> 0]
remove_submap(m, addr) ==
    IF addr \notin DOMAIN m
    THEN [submaps |-> m, diags |-> 1]
    ELSE [submaps |-> Erase(m, addr), diags |-> 0]

-----------------------------------------------------------------------------
(* The archive codec *)

\* submap::store: the fields a submap writes after "version" and
\* "coordinates".  The is_uniform flag is not among them.
store(sm) == sm.payload

\* std::make_unique<submap>() followed by submap::load of every other member:
\* a fresh submap is not uniform, and load fills in the stored fields.
load(payload, rubpow_update) == submap(payload, FALSE)

\* One element of the JSON array save_quad writes (lines 218-231).
write_record_swapped(submap_addr, sm) ==
    [version |-> savegame_version,
     coordinates |-> <<submap_addr.y, submap_addr.x, submap_addr.z>>,
     payload |-> store(sm)]
write_record(submap_addr, sm) ==
    [version |-> savegame_version,
     coordinates |-> <<submap_addr.x, submap_addr.y, submap_addr.z>>,
     payload |-> store(sm)]

\* The body of deserialize's outer loop for one array element (lines 272-297):
\* parse the members, then add_submap; a refused add is a debugmsg.
deserialize_record_quiet(m, rec) ==
    LET result(added) == [submaps |-> added.submaps, diags |-> 0]
    IN  result(add_submap(m,
            tripoint(rec.coordinates[1], rec.coordinates[2], rec.coordinates[3]),
            load(rec.payload, rec.version < RubpowVersion)))
deserialize_record(m, rec) ==
    LET result(added) ==
            [submaps |-> added.submaps, diags |-> IF added.ret THEN 0 ELSE 1]
    IN  result(add_submap(m,
            tripoint(rec.coordinates[1], rec.coordinates[2], rec.coordinates[3]),
            load(rec.payload, rec.version < RubpowVersion)))

\* mapbuffer::deserialize: every record is inserted as soon as it is parsed;
\* the parser throws when it reaches malformed text (f.bad), after the
\* records before it have been inserted.  acc: [submaps, diags].
RECURSIVE deserialize_from_abort(_, _, _)
deserialize_from_abort(acc, f, i) ==
    LET step(one) ==
            IF one.diags > 0
            THEN [submaps |-> one.submaps, diags |-> acc.diags + one.diags,
                  threw |-> f.bad]
            ELSE deserialize_from_abort([submaps |-> one.submaps,
                                         diags |-> acc.diags + one.diags], f, i + 1)
    IN  IF i > Len(f.recs)
        THEN [submaps |-> acc.submaps, diags |-> acc.diags, threw |-> f.bad]
        ELSE step(deserialize_record(acc.submaps, f.recs[i]))
RECURSIVE deserialize_from(_, _, _)
deserialize_from(acc, f, i) ==
    LET step(one) ==
            deserialize_from([submaps |-> one.submaps,
                              diags |-> acc.diags + one.diags], f, i + 1)
    IN  IF i > Len(f.recs)
        THEN [submaps |-> acc.submaps, diags |-> acc.diags, threw |-> f.bad]
        ELSE step(deserialize_record(acc.submaps, f.recs[i]))

deserialize(m, f) == deserialize_from([submaps |-> m, diags |-> 0], f, 1)

\* read_from_file_optional_json( path, reader ): false when the file does not
\* exist; otherwise the reader runs on the file's content.
read_from_file_optional_json(m, fs, om_addr) ==
    LET result(d) == [ok |-> ~d.threw, read |-> TRUE, submaps |-> d.submaps,
                      diags |-> d.diags, threw |-> d.threw]
    IN  IF om_addr \notin DOMAIN fs
        THEN [ok |-> FALSE, read |-> FALSE, submaps |-> m, diags |-> 0,
              threw |-> FALSE]
        ELSE result(deserialize(m, fs[om_addr]))

-----------------------------------------------------------------------------
(* mapbuffer::unserialize_submaps *)

unserialize_submaps(m, fs, p) ==
    LET result(r) ==
            IF ~r.ok
            THEN [ret |-> nullptr, submaps |-> r.submaps, diags |-> r.diags,
                  threw |-> r.threw, read |-> r.read]
            ELSE IF p \notin DOMAIN r.submaps
            THEN [ret |-> nullptr, submaps |-> r.submaps,
                  diags |-> r.diags + 1, threw |-> FALSE, read |-> r.read]
            ELSE [ret |-> r.submaps[p], submaps |-> r.submaps,
                  diags |-> r.diags, threw |-> FALSE, read |-> r.read]
    IN  result(read_from_file_optional_json(m, fs, sm_to_omt_copy(p)))

(* mapbuffer::lookup_submap( const tripoint & ) *)
\* faulted: the index missed and unserialize_submaps ran; read: a quad file
\* was opened and parsed.  An exception out of unserialize_submaps is caught
\* and reported with one debugmsg.
lookup_submap_subscript(m, fs, p) ==
    LET miss(u) == [ret |-> u.ret, submaps |-> Subscript(u.submaps, p),
                    diags |-> u.diags + (IF u.threw THEN 1 ELSE 0),
                    faulted |-> TRUE, read |-> u.read]
    IN  IF p \notin DOMAIN m
        THEN miss(unserialize_submaps(m, fs, p))
        ELSE [ret |-> m[p], submaps |-> m, diags |-> 0,
              faulted |-> FALSE, read |-> FALSE]
lookup_submap(m, fs, p) ==
    LET miss(u) == [ret |-> u.ret, submaps |-> u.submaps,
                    diags |-> u.diags + (IF u.threw THEN 1 ELSE 0),
                    faulted |-> TRUE, read |-> u.read]
    IN  IF p \notin DOMAIN m
        THEN miss(unserialize_submaps(m, fs, p))
        ELSE [ret |-> m[p], submaps |-> m, diags |-> 0,
              faulted |-> FALSE, read |-> FALSE]

-----------------------------------------------------------------------------
(* mapbuffer::save_quad *)

\* submap_addrs: the four members of the quad, in the order of `offsets`
submap_addrs_of(om_addr) ==
    LET at(base) ==
            [i \in 1..Len(offsets) |->
                tripoint(base.x + offsets[i].x, base.y + offsets[i].y, base.z)]
    IN  at(omt_to_sm_copy(om_addr))

\* The first loop (lines 177-187): submaps[submap_addr] default-inserts a null
\* pointer for every member the index does not hold.
RECURSIVE subscript_all(_, _, _)
subscript_all(m, addrs, i) ==
    IF i > Len(addrs) THEN m
    ELSE subscript_all(Subscript(m, addrs[i]), addrs, i + 1)

all_uniform_any(m, addrs) ==
    \E i \in 1..Len(addrs) : m[addrs[i]].null \/ m[addrs[i]].is_uniform
all_uniform_of(m, addrs) ==
    \A i \in 1..Len(addrs) : m[addrs[i]].null \/ m[addrs[i]].is_uniform

\* The members the write loop emits a record for (lines 207-216): those in the
\* index with a non-null pointer.
written_addrs_skip_uniform(m, addrs) ==
    SelectSeq(addrs, LAMBDA a : a \in DOMAIN m /\ ~m[a].null /\ ~m[a].is_uniform)
written_addrs(m, addrs) ==
    SelectSeq(addrs, LAMBDA a : a \in DOMAIN m /\ ~m[a].null)

\* The file write_to_file produces from the lambda (lines 204-239).
quad_file(m, addrs) ==
    LET file(w) == [recs |-> [i \in 1..Len(w) |-> write_record(w[i], m[w[i]])],
                    bad |-> FALSE]
    IN  file(written_addrs(m, addrs))

\* write_to_file( path, writer ): replaces the file at the path by what the
\* writer produces, or, when the write fails (io: the quads whose file cannot
\* be written), throws and leaves the file as it was.
write_to_file(fs, om_addr, file, io) ==
    IF om_addr \in io
    THEN [files |-> fs, threw |-> TRUE]
    ELSE [files |-> Put(fs, om_addr, file), threw |-> FALSE]

\* The members the uniform branch marks for removal (lines 191-197).
uniform_deleted(m, addrs) ==
    SelectSeq(addrs, LAMBDA a : a \in DOMAIN m /\ ~m[a].null)

\* save_quad after its first loop: m is the index with the null pointers in.
\* st: [submaps, files, dirs, saved_submaps, submaps_to_delete, quads, io,
\* threw], quads being the om_addr of every save_quad call so far, io the
\* quads whose write fails and threw whether an exception is unwinding.
save_quad_rest_always_write(st, om_addr, delete_after_save, addrs, m) ==
    LET wrote(r) ==
            [st EXCEPT !.submaps = m, !.quads = Append(@, om_addr),
                  !.dirs = @ \cup {omt_to_seg_copy(om_addr)},
                  !.files = r.files, !.threw = r.threw,
                  !.submaps_to_delete =
                      IF delete_after_save THEN @ \o written_addrs(m, addrs) ELSE @]
    IN  wrote(write_to_file(st.files, om_addr, quad_file(m, addrs), st.io))
save_quad_rest_eager(st, om_addr, delete_after_save, addrs, m) ==
    LET erased(del) ==
            IF delete_after_save
            THEN [k \in DOMAIN m \ {del[i] : i \in 1..Len(del)} |-> m[k]]
            ELSE m
        wrote(r) ==
            [st EXCEPT !.submaps = erased(written_addrs(m, addrs)),
                  !.quads = Append(@, om_addr),
                  !.dirs = @ \cup {omt_to_seg_copy(om_addr)},
                  !.files = r.files, !.threw = r.threw,
                  !.submaps_to_delete =
                      IF delete_after_save THEN @ \o written_addrs(m, addrs) ELSE @]
    IN  IF all_uniform_of(m, addrs)
        THEN [st EXCEPT !.submaps = erased(uniform_deleted(m, addrs)),
                  !.quads = Append(@, om_addr),
                  !.submaps_to_delete =
                      IF delete_after_save THEN @ \o uniform_deleted(m, addrs) ELSE @]
        ELSE wrote(write_to_file(st.files, om_addr, quad_file(m, addrs), st.io))
save_quad_rest(st, om_addr, delete_after_save, addrs, m) ==
    LET wrote(r) ==
            [st EXCEPT !.submaps = m, !.quads = Append(@, om_addr),
                  !.dirs = @ \cup {omt_to_seg_copy(om_addr)},
                  !.files = r.files, !.threw = r.threw,
                  !.submaps_to_delete =
                      IF delete_after_save THEN @ \o written_addrs(m, addrs) ELSE @]
    IN  IF all_uniform_of(m, addrs)
        THEN [st EXCEPT !.submaps = m, !.quads = Append(@, om_addr),
                  !.submaps_to_delete =
                      IF delete_after_save THEN @ \o uniform_deleted(m, addrs) ELSE @]
        ELSE wrote(write_to_file(st.files, om_addr, quad_file(m, addrs), st.io))

save_quad(st, om_addr, delete_after_save) ==
    LET rest(addrs) ==
            save_quad_rest(st, om_addr, delete_after_save, addrs,
                           subscript_all(st.submaps, addrs, 1))
    IN  rest(submap_addrs_of(om_addr))

-----------------------------------------------------------------------------
(* mapbuffer::save *)

\* The world the game object reports: g->m.get_abs_sub(), g->get_levz(),
\* g->m.has_zlevels().
world(abs_sub, levz, has_zlevels) ==
    [abs_sub |-> abs_sub, levz |-> levz, has_zlevels |-> has_zlevels]

Worlds ==
    { world(tripoint(-2, 0, 0), 0, TRUE),
      world(tripoint(0, 0, 0), 0, TRUE),
      world(tripoint(-12, 0, -1), -1, TRUE),
      world(tripoint(-2, 0, 0), 0, FALSE),
      world(tripoint(-2, 0, -1), -1, FALSE) }

\* The last argument of the save_quad call (lines 153-158).
quad_delete_inclusive(om_addr, w, delete_after_save) ==
    LET outside(map_origin) ==
            \/ om_addr.x < map_origin.x \/ om_addr.y < map_origin.y
            \/ om_addr.x >= map_origin.x + HALF_MAPSIZE
            \/ om_addr.y >= map_origin.y + HALF_MAPSIZE
        zlev_del == ~w.has_zlevels /\ om_addr.z # w.levz
    IN  delete_after_save \/ zlev_del \/ outside(sm_to_omt_copy(w.abs_sub))
quad_delete_region_only(om_addr, w, delete_after_save) ==
    LET outside(map_origin) ==
            \/ om_addr.x < map_origin.x \/ om_addr.y < map_origin.y
            \/ om_addr.x > map_origin.x + HALF_MAPSIZE
            \/ om_addr.y > map_origin.y + HALF_MAPSIZE
        zlev_del == ~w.has_zlevels /\ om_addr.z # w.levz
    IN  zlev_del \/ outside(sm_to_omt_copy(w.abs_sub))
quad_delete(om_addr, w, delete_after_save) ==
    LET outside(map_origin) ==
            \/ om_addr.x < map_origin.x \/ om_addr.y < map_origin.y
            \/ om_addr.x > map_origin.x + HALF_MAPSIZE
            \/ om_addr.y > map_origin.y + HALF_MAPSIZE
        zlev_del == ~w.has_zlevels /\ om_addr.z # w.levz
    IN  delete_after_save \/ zlev_del \/ outside(sm_to_omt_copy(w.abs_sub))

\* std::map iteration: the least key, and the keys after k
Least(S) == CHOOSE a \in S : \A b \in S \ {a} : tripoint_less(a, b)
KeysAfter(m, k) == {a \in DOMAIN m : tripoint_less(k, a)}

\* The body of the loop over submaps for the element at key k (lines 132-159).
save_elem_every_member(st, k, w, delete_after_save) ==
    LET visit(om_addr) ==
            save_quad([st EXCEPT !.saved_submaps = @ \cup {om_addr}],
                      om_addr, quad_delete(om_addr, w, delete_after_save))
    IN  visit(sm_to_omt_copy(k))
save_elem(st, k, w, delete_after_save) ==
    LET visit(om_addr) ==
            IF om_addr \in st.saved_submaps
            THEN st
            ELSE save_quad([st EXCEPT !.saved_submaps = @ \cup {om_addr}],
                           om_addr, quad_delete(om_addr, w, delete_after_save))
    IN  visit(sm_to_omt_copy(k))

\* The loop itself, from the element at key k on.  Entries save_quad inserts
\* behind the iterator are visited like any other.  An exception out of
\* save_quad ends the loop: nothing in save catches it.
RECURSIVE save_loop(_, _, _, _)
save_loop(st, k, w, delete_after_save) ==
    LET advance(st1, rest) ==
            IF st1.threw \/ rest = {} THEN st1
            ELSE save_loop(st1, Least(rest), w, delete_after_save)
        next(st1) == advance(st1, KeysAfter(st1.submaps, k))
    IN  next(save_elem(st, k, w, delete_after_save))

\* The removal pass (lines 161-163).  acc: [submaps, diags].
RECURSIVE remove_all(_, _, _)
remove_all(acc, addrs, i) ==
    LET step(one) ==
            remove_all([submaps |-> one.submaps, diags |-> acc.diags + one.diags],
                       addrs, i + 1)
    IN  IF i > Len(addrs) THEN acc
        ELSE step(remove_submap(acc.submaps, addrs[i]))

\* threw: an exception left save; the removal pass did not run and
\* submaps_to_delete was dropped with the frame.
save_nothrow(m, fs, ds, w, delete_after_save, io) ==
    LET finish(st, removed) ==
            [submaps |-> removed.submaps, files |-> st.files, dirs |-> st.dirs,
             diags |-> removed.diags, passed |-> st.submaps,
             submaps_to_delete |-> st.submaps_to_delete, quads |-> st.quads,
             threw |-> FALSE]
        pass(st) ==
            finish(st, remove_all([submaps |-> st.submaps, diags |-> 0],
                                  st.submaps_to_delete, 1))
        start(st0) ==
            IF DOMAIN m = {} THEN pass(st0)
            ELSE pass(save_loop(st0, Least(DOMAIN m), w, delete_after_save))
    IN  start([submaps |-> m, files |-> fs, dirs |-> ds, saved_submaps |-> {},
               submaps_to_delete |-> <<>>, quads |-> <<>>, io |-> io,
               threw |-> FALSE])
save(m, fs, ds, w, delete_after_save, io) ==
    LET finish(st, removed) ==
            [submaps |-> removed.submaps, files |-> st.files, dirs |-> st.dirs,
             diags |-> removed.diags, passed |-> st.submaps,
             submaps_to_delete |-> st.submaps_to_delete, quads |-> st.quads,
             threw |-> st.threw]
        pass(st) ==
            IF st.threw
            THEN finish(st, [submaps |-> st.submaps, diags |-> 0])
            ELSE finish(st, remove_all([submaps |-> st.submaps, diags |-> 0],
                                       st.submaps_to_delete, 1))
        start(st0) ==
            IF DOMAIN m = {} THEN pass(st0)
            ELSE pass(save_loop(st0, Least(DOMAIN m), w, delete_after_save))
    IN  start([submaps |-> m, files |-> fs, dirs |-> ds, saved_submaps |-> {},
               submaps_to_delete |-> <<>>, quads |-> <<>>, io |-> io,
               threw |-> FALSE])

-----------------------------------------------------------------------------
(* The state machine *)

NoFiles == [q \in {} |-> [recs |-> <<>>, bad |-> FALSE]]

\* Archives damaged between sessions: the quad file of (0,0,0) is malformed
\* from its first byte, or after its first record.
DamagedFiles ==
    { Put(NoFiles, tripoint(0, 0, 0), [recs |-> <<>>, bad |-> TRUE]),
      Put(NoFiles, tripoint(0, 0, 0),
          [recs |-> <<write_record(tripoint(0, 0, 0), submap(1, FALSE))>>,
           bad |-> TRUE]) }

NoWorld == world(tripoint(0, 0, 0), 0, FALSE)

\* `last` records the latest call: its arguments, what it returned and how
\* many debugmsg it raised; for save also the index it started from, the
\* quads whose write failed and whether save left by an exception.
NoCall ==
    [op |-> "init", p |-> tripoint(0, 0, 0), sm |-> nullptr, ret |-> nullptr,
     ok |-> FALSE, diags |-> 0, faulted |-> FALSE, read |-> FALSE,
     del |-> FALSE, world |-> NoWorld, pre |-> EmptyMap,
     io |-> {}, threw |-> FALSE]

\* A new world, played in either region, or a world whose archive was damaged
\* between sessions.
Init ==
    /\ submaps = EmptyMap
    /\ \/ coords \in {SiblingCoords, QuadCoords} /\ files = NoFiles
       \/ coords = SiblingCoords /\ files \in DamagedFiles
    /\ dirs = {omt_to_seg_copy(q) : q \in DOMAIN files}
    /\ maps_dir = (DOMAIN files # {})
    /\ last = NoCall

\* add_submap reports through its return value only: it has no debugmsg, so
\* `diags` stays 0.
Add ==
    \E p \in coords, sm \in NewSubmaps :
        \E r \in {add_submap(submaps, p, sm)} :
            /\ submaps' = r.submaps
            /\ last' = [NoCall EXCEPT !.op = "add", !.p = p, !.sm = sm,
                                      !.ok = r.ret]
            /\ UNCHANGED <<files, dirs, maps_dir, coords>>

Remove ==
    \E p \in coords :
        \E r \in {remove_submap(submaps, p)} :
            /\ submaps' = r.submaps
            /\ last' = [NoCall EXCEPT !.op = "remove", !.p = p,
                                      !.diags = r.diags]
            /\ UNCHANGED <<files, dirs, maps_dir, coords>>

Lookup ==
    \E p \in coords :
        \E r \in {lookup_submap(submaps, files, p)} :
            /\ submaps' = r.submaps
            /\ last' = [NoCall EXCEPT !.op = "lookup", !.p = p, !.ret = r.ret,
                                      !.diags = r.diags, !.faulted = r.faulted,
                                      !.read = r.read]
            /\ UNCHANGED <<files, dirs, maps_dir, coords>>

\* The disk during a save: every write succeeds, or the file of quad (0,0,0)
\* cannot be written.
NoFailure == {}
FailingWrites == {tripoint(0, 0, 0)}

\* The calls of save: with and without forced eviction, in every world with a
\* working disk, and in one world with a failing one.
SaveCalls ==
    [w : Worlds, del : BOOLEAN, io : {NoFailure}]
        \cup [w : {world(tripoint(-2, 0, 0), 0, TRUE)}, del : BOOLEAN,
              io : {FailingWrites}]

Save ==
    \E c \in SaveCalls :
        \E r \in {save(submaps, files, dirs, c.w, c.del, c.io)} :
            /\ submaps' = r.submaps
            /\ files' = r.files
            /\ dirs' = r.dirs
            /\ maps_dir' = TRUE
            /\ last' = [NoCall EXCEPT !.op = "save", !.del = c.del,
                                      !.world = c.w, !.diags = r.diags,
                                      !.pre = submaps, !.io = c.io,
                                      !.threw = r.threw]
            /\ UNCHANGED coords

Reset ==
    /\ submaps' = reset(submaps)
    /\ last' = [NoCall EXCEPT !.op = "reset"]
    /\ UNCHANGED <<files, dirs, maps_dir, coords>>

Next == Add \/ Remove \/ Lookup \/ Save \/ Reset

Spec == Init /\ [][Next]_vars

-----------------------------------------------------------------------------
(* Vocabulary of the properties *)

\* the coordinate a record was written for
coordinates_of(rec) ==
    tripoint(rec.coordinates[1], rec.coordinates[2], rec.coordinates[3])

\* the members of the quad p belongs to
Siblings(p) ==
    {submap_addrs_of(sm_to_omt_copy(p))[i] : i \in 1..Len(offsets)}

\* the quad file that owns p exists
HasFile(fs, p) == sm_to_omt_copy(p) \in DOMAIN fs

\* the coordinates the quad file that owns p holds a record for
Recorded(fs, p) ==
    IF HasFile(fs, p)
    THEN {coordinates_of(fs[sm_to_omt_copy(p)].recs[i]) :
              i \in 1..Len(fs[sm_to_omt_copy(p)].recs)}
    ELSE {}

WellFormed(fs) == \A q \in DOMAIN fs : ~fs[q].bad

\* the latest call was a save that returned to its caller
SaveReturned == last.op = "save" /\ ~last.threw

NonUniform(m) == {c \in Resident(m) : ~m[c].is_uniform}

Uniform(m) == {c \in Resident(m) : m[c].is_uniform}

-----------------------------------------------------------------------------
(* C1 *)

\* C1: with every archive file well-formed, lookup(c) returns a chunk whenever
\* a chunk is resident at c, or none is and the quad file that owns c holds a
\* record for c.
C1_LookupMissesOnlyOnTotalMiss ==
    WellFormed(files) =>
        \A c \in coords :
            (c \in Resident(submaps) \/ c \in Recorded(files, c))
                => ~lookup_submap(submaps, files, c).ret.null

-----------------------------------------------------------------------------
(* C2 *)

\* C2: after save(delete_after_save = true), a lookup of the coordinate of
\* every chunk that was resident and non-uniform returns a chunk held at that
\* coordinate with the payload that was saved.
C2_RoundTrip ==
    (SaveReturned /\ last.del) =>
        \A c \in NonUniform(last.pre) :
            LET r == lookup_submap(submaps, files, c)
            IN  /\ ~r.ret.null
                /\ r.ret.payload = last.pre[c].payload
                /\ c \in Resident(r.submaps) /\ r.submaps[c] = r.ret
                /\ r.read

\* Two non-uniform members of one quad were saved with eviction and both
\* come back with their payloads.
C2_Witness ==
    /\ SaveReturned /\ last.del
    /\ \E c, d \in NonUniform(last.pre) :
        /\ c # d /\ d \in Siblings(c)
        /\ lookup_submap(submaps, files, c).ret.payload = last.pre[c].payload
        /\ lookup_submap(submaps, files, d).ret.payload = last.pre[d].payload
        /\ ~lookup_submap(submaps, files, d).ret.null

-----------------------------------------------------------------------------
(* C3 *)

\* C3: after save(delete_after_save = true), in whatever world, no coordinate
\* that held a chunk before the call is in the index, and a lookup of it
\* misses the index and takes the disk-load path.
C3_EvictionCorrectness ==
    (SaveReturned /\ last.del) =>
        \A c \in Resident(last.pre) :
            /\ c \notin DOMAIN submaps
            /\ lookup_submap(submaps, files, c).faulted

\* A forced-eviction save ran in a world that retains every resident chunk's
\* quad, over an index holding a uniform and a non-uniform chunk.
C3_Witness ==
    /\ SaveReturned /\ last.del
    /\ Uniform(last.pre) # {} /\ NonUniform(last.pre) # {}
    /\ \A c \in Resident(last.pre) :
           ~quad_delete(sm_to_omt_copy(c), last.world, FALSE)
    /\ Resident(submaps) = {}

-----------------------------------------------------------------------------
(* C4 *)

\* C4: add(c, B) with a chunk A at c returns false and changes nothing, a
\* lookup of c still returning A; add(c, A) with no chunk at c returns true and
\* a lookup of c then returns A.
C4_InsertIfAbsent ==
    [][last'.op = "add" =>
          IF last'.p \in Resident(submaps)
          THEN /\ ~last'.ok
               /\ submaps' = submaps
               /\ lookup_submap(submaps', files', last'.p).ret = submaps[last'.p]
          ELSE /\ last'.ok
               /\ lookup_submap(submaps', files', last'.p).ret = last'.sm]_vars

-----------------------------------------------------------------------------
(* C5 *)

\* the quad of p holds at least one chunk and every chunk it holds is uniform
Trivial(m, p) ==
    /\ Siblings(p) \cap Resident(m) # {}
    /\ Siblings(p) \cap NonUniform(m) = {}

\* the quad file that owns p is the same in fs and gs
SameFile(fs, gs, p) ==
    /\ HasFile(fs, p) <=> HasFile(gs, p)
    /\ HasFile(fs, p) => fs[sm_to_omt_copy(p)] = gs[sm_to_omt_copy(p)]

\* every directory of ds2 is in ds or is the segment of a quad of m that
\* holds a non-uniform chunk
OnlyNeededDirs(ds, ds2, m) ==
    ds2 \subseteq
        ds \cup {omt_to_seg_copy(sm_to_omt_copy(c)) : c \in NonUniform(m)}

\* C5: a save, with or without eviction, leaves the quad file of a quad whose
\* resident members are all uniform as it was (none if there was none),
\* creates no segment directory for it and raises no debugmsg; saving once
\* more gives the same.
C5_UniformElision ==
    \A c \in SaveCalls :
        LET r == save(submaps, files, dirs, c.w, c.del, c.io)
            r2 == save(r.submaps, r.files, r.dirs, c.w, c.del, c.io)
        IN  /\ r.diags = 0 /\ r2.diags = 0
            /\ OnlyNeededDirs(dirs, r.dirs, submaps)
            /\ OnlyNeededDirs(dirs, r2.dirs, submaps)
            /\ \A p \in Resident(submaps) :
                   Trivial(submaps, p) =>
                       /\ SameFile(files, r.files, p)
                       /\ SameFile(files, r2.files, p)

\* A save without eviction ran over an index whose only chunks were uniform:
\* no file, no directory, no debugmsg, and the chunks are still resident.
C5_Witness ==
    /\ SaveReturned /\ ~last.del /\ last.diags = 0
    /\ Uniform(last.pre) # {} /\ NonUniform(last.pre) = {}
    /\ Resident(submaps) = Resident(last.pre)
    /\ DOMAIN files = {} /\ dirs = {}

-----------------------------------------------------------------------------
(* C6 *)

\* the coordinates of the records of the quad file that owns p, in order
RecordedSeq(fs, p) ==
    [i \in 1..Len(fs[sm_to_omt_copy(p)].recs) |->
        coordinates_of(fs[sm_to_omt_copy(p)].recs[i])]

\* the members of p's quad, in the order of `offsets`, that are in S
MembersIn(p, S) ==
    SelectSeq(submap_addrs_of(sm_to_omt_copy(p)), LAMBDA a : a \in S)

\* C6 as claimed: the file a save writes for a quad holds a record for exactly
\* the members that were resident and not uniform.
C6_RecordsAreNonUniformMembers ==
    SaveReturned =>
        \A p \in NonUniform(last.pre) :
            RecordedSeq(files, p) = MembersIn(p, NonUniform(last.pre))

\* C6 as amended: the file a save writes for a quad holds one record for every
\* member that was resident, uniform or not, in the order of the offsets and
\* with the member's payload, and no record for a member that was absent.
C6_RecordsAreResidentMembers ==
    SaveReturned =>
        \A p \in NonUniform(last.pre) :
            /\ HasFile(files, p)
            /\ ~files[sm_to_omt_copy(p)].bad
            /\ RecordedSeq(files, p) = MembersIn(p, Resident(last.pre))
            /\ \A i \in 1..Len(files[sm_to_omt_copy(p)].recs) :
                   LET rec == files[sm_to_omt_copy(p)].recs[i]
                   IN  rec.payload = last.pre[coordinates_of(rec)].payload

\* (0,0,0) non-uniform and (1,0,0) uniform were saved: the file holds two
\* records, and two members of the quad have none.
C6_Witness ==
    /\ SaveReturned
    /\ tripoint(0, 0, 0) \in NonUniform(last.pre)
    /\ tripoint(1, 0, 0) \in Uniform(last.pre)
    /\ Recorded(files, tripoint(0, 0, 0))
           = {tripoint(0, 0, 0), tripoint(1, 0, 0)}

-----------------------------------------------------------------------------
(* C7 *)

-----------------------------------------------------------------------------
(* C8 *)

\* C8: a lookup of a coordinate that holds no chunk and whose quad file does
\* not exist returns no chunk, raises no debugmsg and leaves the index and the
\* disk as they were.
C8_MissTransparency ==
    [][(last'.op = "lookup" /\ last'.p \notin Resident(submaps)
            /\ ~HasFile(files, last'.p))
          => /\ last'.ret.null
             /\ last'.diags = 0
             /\ submaps' = submaps
             /\ files' = files /\ dirs' = dirs /\ maps_dir' = maps_dir]_vars

\* A lookup missed the index, found no quad file and returned no chunk, while
\* another quad has a file on disk.
C8_Witness ==
    /\ last.op = "lookup" /\ last.faulted /\ ~last.read
    /\ last.ret.null /\ last.diags = 0
    /\ ~HasFile(files, last.p)
    /\ last.p \notin DOMAIN submaps
    /\ DOMAIN files # {}

-----------------------------------------------------------------------------
(* C9 *)

\* C9: after a lookup that missed the index and decoded the quad file, every
\* member the file holds a record for is resident, and a lookup of it is an
\* index hit that reads nothing from disk.
C9_SiblingAmortization ==
    (last.op = "lookup" /\ last.faulted /\ last.read
        /\ ~files[sm_to_omt_copy(last.p)].bad) =>
        \A c \in Recorded(files, last.p) :
            /\ c \in Resident(submaps)
            /\ ~lookup_submap(submaps, files, c).faulted
            /\ ~lookup_submap(submaps, files, c).read

-----------------------------------------------------------------------------
(* C10 *)

\* C10: a lookup that misses the index and finds the quad file malformed
\* raises one debugmsg, returns no chunk and leaves the index as it was.
C10_DecodeFailureAllOrNothing ==
    [][(last'.op = "lookup" /\ last'.faulted /\ HasFile(files, last'.p)
            /\ files[sm_to_omt_copy(last'.p)].bad)
          => /\ last'.diags = 1
             /\ last'.ret.null
             /\ submaps' = submaps]_vars

-----------------------------------------------------------------------------
(* C11 *)

\* C11: a lookup of c that misses the index and decodes a quad file that holds
\* no record for c raises a debugmsg, returns no chunk and leaves c out of the
\* index, and every member the file holds a record for is resident afterwards.
C11_InconsistencyReported ==
    [][(last'.op = "lookup" /\ last'.faulted /\ HasFile(files, last'.p)
            /\ ~files[sm_to_omt_copy(last'.p)].bad
            /\ last'.p \notin Recorded(files, last'.p))
          => /\ last'.diags >= 1
             /\ last'.ret.null
             /\ last'.p \notin DOMAIN submaps'
             /\ Recorded(files, last'.p) \subseteq Resident(submaps')]_vars

-----------------------------------------------------------------------------
(* C12 *)

-----------------------------------------------------------------------------
(* C13 *)

\* the quad of c lies outside the retain region of world w: below the quad of
\* the map's origin in x or y, or more than HALF_MAPSIZE quads above it
OutsideRetainRegion(c, w) ==
    \/ c.x \div SmPerOmt < w.abs_sub.x \div SmPerOmt
    \/ c.y \div SmPerOmt < w.abs_sub.y \div SmPerOmt
    \/ c.x \div SmPerOmt > (w.abs_sub.x \div SmPerOmt) + HALF_MAPSIZE
    \/ c.y \div SmPerOmt > (w.abs_sub.y \div SmPerOmt) + HALF_MAPSIZE

\* c is on a level the world does not keep: z-levels are off and c is not on
\* the current level
InactiveLevel(c, w) == ~w.has_zlevels /\ c.z # w.levz

\* C13: after save(delete_after_save = false) a chunk that was resident is no
\* longer resident if and only if its quad is outside the retain region or on
\* an inactive level; every other chunk is still resident and is the same
\* chunk, whether or not its quad was written.
C13_EvictionScope ==
    (SaveReturned /\ ~last.del) =>
        \A c \in Resident(last.pre) :
            IF OutsideRetainRegion(c, last.world) \/ InactiveLevel(c, last.world)
            THEN c \notin Resident(submaps)
            ELSE c \in Resident(submaps) /\ submaps[c] = last.pre[c]

\* A save without forced eviction kept the chunk of one quad, whose x is
\* exactly HALF_MAPSIZE quads above the origin, and evicted the chunk of
\* another.
C13_Witness ==
    /\ SaveReturned /\ ~last.del
    /\ \E c, d \in Resident(last.pre) :
           /\ c \in Resident(submaps) /\ d \notin Resident(submaps)
           /\ c.x \div SmPerOmt = (last.world.abs_sub.x \div SmPerOmt) + HALF_MAPSIZE

-----------------------------------------------------------------------------
(* C14 *)

\* the quads whose file a save over index m has to write and cannot
FailedWrites(m, io) == {q \in io : \E c \in NonUniform(m) : sm_to_omt_copy(c) = q}

\* C14: a save leaves by an exception exactly when the write of a quad file
\* failed, so its caller can tell it from a save whose every write succeeded;
\* the quad whose write failed is the last one save_quad was called for, it
\* was called for once, and its file is as it was before the save.
C14_WriteFailurePropagates ==
    [][last'.op = "save" =>
          LET failed == FailedWrites(submaps, last'.io)
              quads == save(submaps, files, dirs, last'.world, last'.del,
                            last'.io).quads
          IN  /\ last'.threw <=> failed # {}
              /\ \A q \in failed :
                     /\ SameFile(files, files', omt_to_sm_copy(q))
                     /\ last'.threw =>
                            /\ quads[Len(quads)] = q
                            /\ \A i \in 1..(Len(quads) - 1) : quads[i] # q]_vars

\* A save wrote the file of quad (-1,0,-1), failed to write the file of quad
\* (0,0,0) and left by an exception, every chunk still resident.
C14_Witness ==
    /\ last.op = "save" /\ last.threw /\ last.del
    /\ tripoint(-1, 0, -1) \in DOMAIN files
    /\ tripoint(0, 0, 0) \notin DOMAIN files
    /\ Resident(submaps) = Resident(last.pre)
    /\ Cardinality(NonUniform(last.pre)) = 2

-----------------------------------------------------------------------------
(* C15 *)

\* the records of the quad file that owns p whose coordinate holds a chunk in m
DuplicateRecords(fs, p, m) ==
    {i \in 1..Len(fs[sm_to_omt_copy(p)].recs) :
        coordinates_of(fs[sm_to_omt_copy(p)].recs[i]) \in Resident(m)}

\* C15 as claimed: every add issued for a coordinate that holds a chunk raises
\* a debugmsg, whether the simulation or deserialize issues it.
C15_EveryDuplicateReported ==
    [][/\ (last'.op = "add" /\ last'.p \in Resident(submaps))
              => last'.diags >= 1
       /\ (last'.op = "lookup" /\ last'.read)
              => last'.diags >= Cardinality(DuplicateRecords(files, last'.p, submaps))
      ]_vars

\* C15 as amended: every add issued for a coordinate that holds a chunk is
\* refused and changes nothing.  An add of the simulation returns false and
\* raises no debugmsg; an add of deserialize raises one debugmsg for each
\* refused record.
C15_DuplicateRefused ==
    [][/\ (last'.op = "add" /\ last'.p \in Resident(submaps))
              => /\ ~last'.ok
                 /\ last'.diags = 0
                 /\ submaps' = submaps
       /\ (last'.op = "lookup" /\ last'.read)
              => /\ last'.diags >= Cardinality(DuplicateRecords(files, last'.p, submaps))
                 /\ \A c \in Resident(submaps) : submaps'[c] = submaps[c]
      ]_vars

\* A lookup loaded its chunk from a quad file that also held a record for a
\* chunk already resident: one debugmsg, and both are resident.
C15_Witness ==
    /\ last.op = "lookup" /\ last.read /\ ~last.ret.null
    /\ last.diags = 1
    /\ Cardinality(Recorded(files, last.p)) = 2
    /\ Recorded(files, last.p) \subseteq Resident(submaps)

-----------------------------------------------------------------------------
(* C16 *)

\* the quads that have an entry in m
QuadsOf(m) == {sm_to_omt_copy(k) : k \in DOMAIN m}

NoRepeats(seq) == \A i, j \in 1..Len(seq) : seq[i] = seq[j] => i = j

\* C16: a save that returns has called save_quad exactly once for every quad
\* that had an entry in the index when it started, and for no other quad; a
\* save that an exception ends has called it at most once for each.
C16_EachQuadOnce ==
    [][last'.op = "save" =>
          \A r \in {save(submaps, files, dirs, last'.world, last'.del, last'.io)} :
              /\ NoRepeats(r.quads)
              /\ {r.quads[i] : i \in 1..Len(r.quads)} \subseteq QuadsOf(submaps)
              /\ ~last'.threw =>
                     {r.quads[i] : i \in 1..Len(r.quads)} = QuadsOf(submaps)]_vars

\* A save ran over two resident members of one quad, with null entries at the
\* other two: save_quad was called once, and the file holds both members.
C16_Witness ==
    /\ SaveReturned
    /\ \E c, d \in Resident(last.pre) :
           /\ c # d /\ d \in Siblings(c)
           /\ Siblings(c) \subseteq DOMAIN last.pre
           /\ Recorded(files, c) = {c, d}
           /\ save(last.pre, NoFiles, {}, last.world, last.del, last.io).quads
                  = <<sm_to_omt_copy(c)>>

-----------------------------------------------------------------------------
(* C17 *)

\* C17: the loop over the quads removes no entry and changes no chunk of the
\* index; the coordinates collected for removal are named once each and every
\* one has an entry when the loop ends; the removal pass erases exactly those
\* and raises no debugmsg.
C17_DeferredEviction ==
    [][last'.op = "save" =>
          \A r \in {save(submaps, files, dirs, last'.world, last'.del, last'.io)} :
              \A to_delete \in {{r.submaps_to_delete[i] :
                                    i \in 1..Len(r.submaps_to_delete)}} :
                  /\ \A k \in DOMAIN submaps :
                         k \in DOMAIN r.passed /\ r.passed[k] = submaps[k]
                  /\ NoRepeats(r.submaps_to_delete)
                  /\ to_delete \subseteq DOMAIN r.passed
                  /\ last'.diags = 0
                  /\ ~last'.threw =>
                         /\ DOMAIN submaps' = DOMAIN r.passed \ to_delete
                         /\ \A k \in DOMAIN submaps' : submaps'[k] = r.passed[k]]_vars

\* A save with eviction ran over a quad that was written and a quad whose
\* only chunk was uniform: both chunks are gone and no debugmsg was raised.
C17_Witness ==
    /\ SaveReturned /\ last.del /\ last.diags = 0
    /\ NonUniform(last.pre) # {} /\ Uniform(last.pre) # {}
    /\ \E c \in Uniform(last.pre) : Trivial(last.pre, c)
    /\ Resident(submaps) = {}
    /\ DOMAIN files # {}

-----------------------------------------------------------------------------
(* C18 *)

\* C18: a save adds no entry to the index: the coordinates that have an entry
\* after it had one before it, and an add at a coordinate that had none
\* before the save returns true after it.
C18_SaveAddsNoEntry ==
    [][last'.op = "save" =>
          /\ DOMAIN submaps' \subseteq DOMAIN submaps
          /\ \A c \in coords \ DOMAIN submaps, sm \in NewSubmaps :
                 add_submap(submaps', c, sm).ret]_vars

-----------------------------------------------------------------------------
(* C19 *)

-----------------------------------------------------------------------------
(* C20 *)

\* C20: once a save has written the chunk at c and c is no longer resident,
\* with a lookup of c reading it back, every add, lookup or save that is not
\* an add of c leaves it so: a lookup of c afterwards still returns a chunk
\* with the saved payload.  Stated for one step, it holds for any sequence.
C20_EvictedChunkDurable ==
    [][\A c \in coords :
           (/\ c \notin Resident(submaps)
            /\ c \in Recorded(files, c)
            /\ ~lookup_submap(submaps, files, c).ret.null
            /\ last'.op \in {"add", "lookup", "save"}
            /\ ~(last'.op = "add" /\ last'.p = c))
           => /\ ~lookup_submap(submaps', files', c).ret.null
              /\ lookup_submap(submaps', files', c).ret.payload
                     = lookup_submap(submaps, files, c).ret.payload]_vars

=============================================================================
